---- MODULE Spec2Model ----
(***************************************************************************)
(* Model of the arago optimizer (src/optimizer/src): the DAG analyses      *)
(* (top_sort, get_costs, efficient_sort), the furthest-live register       *)
(* allocator, the AragoSpec device emulator and the two Scheduler entry    *)
(* points baseline_execute and optimal_execute, run one after the other as *)
(* main does.                                                              *)
(*                                                                         *)
(* Ids are 0-based as in the source (Vec indices); Vec / VecDeque values   *)
(* are TLA+ sequences; BTreeMap / HashMap values are functions with a      *)
(* finite domain; Option::None of an opcode is the string "None".          *)
(***************************************************************************)
EXTENDS Integers, Sequences, FiniteSets, TLC

(* ----------------------------- bounds ---------------------------------- *)
\* Enumerated input DAGs have at most MaxNodes nodes and MaxEdges edges.
MaxNodes == 3
MaxEdges == 3
\* Register files smaller than the real one are tried with 1..MaxReg registers.
MaxReg == 2
\* Number of calls made on a free-standing device (DevSpec).
MaxCalls == 4

(* ------------------------ program constants ---------------------------- *)
TRANSFER_TIME == 1
POINTWISE_COST == 1000
OPAC_COST == 1
\* ScalarCore::max_cores / MatrixCore::max_cores
max_cores == 1
\* ScalarCore::max_reg / MatrixCore::max_reg
max_reg == 16

None == "None"
Operation == {"VAdd", "VMin", "VMax", "VScaMul"}
ChipType == {"Opac", "Scalar"}

(* ------------------------- generic helpers ----------------------------- *)
Range(s) == {s[i] : i \in DOMAIN s}
Max2(a, b) == IF a >= b THEN a ELSE b
MinOf(S) == CHOOSE x \in S : \A y \in S : x <= y
MaxOf(S) == CHOOSE x \in S : \A y \in S : x >= y
Last(s) == s[Len(s)]
Front(s) == SubSeq(s, 1, Len(s) - 1)
Contains(s, x) == \E i \in DOMAIN s : s[i] = x
\* position (1-based) of the first occurrence of x in s, 0 when absent
IndexOf(s, x) == IF Contains(s, x) THEN MinOf({i \in DOMAIN s : s[i] = x}) ELSE 0
\* a map without one key
Remove(m, k) == [x \in DOMAIN m \ {k} |-> m[x]]
EmptyMap == << >>

RECURSIVE Flatten(_)
Flatten(ss) == IF ss = << >> THEN << >> ELSE Head(ss) \o Flatten(Tail(ss))

\* the elements of a set of integers-keyed items as an ascending sequence
RECURSIVE SortedSeq(_)
SortedSeq(S) == IF S = {} THEN << >> ELSE LET m == MinOf(S) IN <<m>> \o SortedSeq(S \ {m})

(* ------------------------------ devices.rs ------------------------------ *)
\* Option<T>: << >> is None, <<x>> is Some(x)
NoneOpt == << >>
Some(x) == <<x>>

Scalar_ops == {"VAdd", "VMin", "VMax"}

\* AragoSpec::get_cost
get_cost(op) == IF op \in Scalar_ops THEN POINTWISE_COST ELSE OPAC_COST

\* AragoSpec::get_core: the field of the device that holds the core of op
get_core(op) == IF op \in Scalar_ops THEN "active_pointwise_cores" ELSE "active_mult_cores"

\* Core.info.cost(): Core::scalar_core is built on ScalarCore, Core::matrix_core on MatrixCore
info_cost(core) == IF core = "active_pointwise_cores" THEN POINTWISE_COST ELSE OPAC_COST

\* Core.info.chip()
info_chip(core) == IF core = "active_pointwise_cores" THEN "Scalar" ELSE "Opac"

\* Core::is_full (its assertion len <= max_cores cannot fail: every push is
\* preceded by a check or a pop)
is_full(active) == Len(active) = max_cores

\* Core::add that starts the new task at the clock it is given even when a head
\* was popped
Core_add_now(active, cost, id, t) ==
    LET res == IF is_full(active) THEN Some(Head(active)) ELSE NoneOpt
        rest == IF is_full(active) THEN Tail(active) ELSE active
    IN [active |-> Append(rest, <<id, t + cost>>), res |-> res]

\* Core::ensure_free + Core::add on the queue `active` of a core of cost `cost`:
\* the new queue and the popped head
Core_add(active, cost, id, t) ==
    LET res == IF is_full(active) THEN Some(Head(active)) ELSE NoneOpt
        rest == IF is_full(active) THEN Tail(active) ELSE active
        start == IF res = NoneOpt THEN t ELSE res[1][2]
    IN [active |-> Append(rest, <<id, start + cost>>), res |-> res]

\* Core::try_add
Core_try_add(active, cost, id, t) ==
    IF ~is_full(active)
    THEN [active |-> Append(active, <<id, t + cost>>), ok |-> TRUE]
    ELSE [active |-> active, ok |-> FALSE]

\* Core::update_time: drop the finished tasks from the front
RECURSIVE Core_update_time(_, _)
Core_update_time(active, t) ==
    IF active # << >> /\ Head(active)[2] <= t
    THEN Core_update_time(Tail(active), t)
    ELSE active

\* AragoSpec::default
AragoSpec_default ==
    [active_mult_cores |-> << >>, active_pointwise_cores |-> << >>,
     active_memory |-> EmptyMap, registers |-> EmptyMap,
     done_tasks |-> {}, last_task |-> NoneOpt, time |-> 0]

\* update_time that sets the clock to the completion time it is given (no max)
update_time_set(dev, t) == [dev EXCEPT !.time = t]

\* AragoSpec::update_time
update_time(dev, t) == [dev EXCEPT !.time = Max2(t, dev.time)]

\* store_memory that records the register's id but not the id's register
store_memory_registers_only(dev, id, reg) ==
    [dev EXCEPT !.registers = (reg :> id) @@ @]

\* AragoSpec::store_memory
store_memory(dev, id, reg) ==
    [dev EXCEPT !.active_memory = (id :> reg) @@ @, !.registers = (reg :> id) @@ @]

\* AragoSpec::to_device
to_device(dev, id, reg) ==
    store_memory([dev EXCEPT !.time = @ + TRANSFER_TIME, !.done_tasks = @ \cup {id}], id, reg)

\* the assertion of AragoSpec::schedule: every input is bound in device memory
inputs_bound(dev, inputs) == \A input \in inputs : input \in DOMAIN dev.active_memory

\* AragoSpec::schedule, past its assertion
schedule(dev, op, id, reg) ==
    LET core == get_core(op)
        exec == Core_add(dev[core], info_cost(core), id, dev.time)
        d1 == [dev EXCEPT !.last_task = Some(id), ![core] = exec.active]
        d2 == store_memory(d1, id, reg)
    IN IF exec.res # NoneOpt
       THEN [update_time(d2, exec.res[1][2]) EXCEPT !.done_tasks = @ \cup {exec.res[1][1]}]
       ELSE d2

\* step that only looks at the scalar core
step_core_scalar_only(dev) ==
    IF dev.active_pointwise_cores # << >> THEN "active_pointwise_cores" ELSE None

\* AragoSpec::step: the core whose head is popped, "None" when both are empty
step_core(dev) ==
    LET mult == dev.active_mult_cores
        scalar == dev.active_pointwise_cores
    IN IF mult # << >> /\ scalar # << >>
       THEN (IF Head(mult)[2] < Head(scalar)[2] THEN "active_mult_cores"
             ELSE "active_pointwise_cores")
       ELSE IF scalar # << >> THEN "active_pointwise_cores"
       ELSE IF mult # << >> THEN "active_mult_cores"
       ELSE None

\* AragoSpec::step when a core has a task in flight
step(dev) ==
    LET core == step_core(dev)
        head == Head(dev[core])
    IN [update_time([dev EXCEPT ![core] = Tail(@)], head[2])
          EXCEPT !.done_tasks = @ \cup {head[1]}]

\* AragoSpec::reg_stat
reg_stat == [chip \in ChipType |-> max_reg]

(* -------------------------------- dag.rs -------------------------------- *)
Ids(n) == 0 .. (n - 1)

RECURSIVE users_of(_, _)
users_of(edges, v) ==
    IF edges = << >> THEN << >>
    ELSE (IF Head(edges)[1] = v THEN <<Head(edges)[2]>> ELSE << >>) \o users_of(Tail(edges), v)

RECURSIVE sources_of(_, _)
sources_of(edges, v) ==
    IF edges = << >> THEN << >>
    ELSE (IF Head(edges)[2] = v THEN <<Head(edges)[1]>> ELSE << >>) \o sources_of(Tail(edges), v)

\* Dag::new: in_nodes is a function 0..N-1 -> opcode or None, edges a sequence
Dag_new(in_nodes, edges) ==
    LET used == {edges[i][2] : i \in DOMAIN edges}
        all == [n \in DOMAIN in_nodes |->
                  [op |-> in_nodes[n], id |-> n,
                   users |-> users_of(edges, n), sources |-> sources_of(edges, n)]]
    IN [inputs |-> SortedSeq(DOMAIN in_nodes \ used), all_nodes |-> all]

NumNodes(d) == Cardinality(DOMAIN d.all_nodes)
\* the edges (u, v) of a constructed Dag
EdgeSet(d) == UNION {{<<u, d.all_nodes[u].users[k]>> : k \in DOMAIN d.all_nodes[u].users} :
                        u \in DOMAIN d.all_nodes}

\* a for loop with an accumulator; the accumulator is bound to its value once
\* per element
RECURSIVE FoldLeft(_, _, _)
FoldLeft(Op(_, _), acc, s) ==
    IF s = << >> THEN acc
    ELSE CHOOSE r \in {FoldLeft(Op, Op(a, Head(s)), Tail(s)) : a \in {acc}} : TRUE

\* the users of the ids of a list, one after the other (a nested for loop)
users_in_turn(d, ids) == Flatten([k \in DOMAIN ids |-> d.all_nodes[ids[k]].users])

\* top_sort that starts from every node instead of the inputs
top_sort_init_all(d) ==
    [free |-> SortedSeq(DOMAIN d.all_nodes), done |-> [v \in DOMAIN d.all_nodes |-> 0],
     res |-> << >>]

\* top_sort, locals before the loop
top_sort_init(d) ==
    [free |-> d.inputs, done |-> [v \in DOMAIN d.all_nodes |-> 0], res |-> << >>]

\* top_sort that graduates a user when its first source arrives
top_sort_ready_first(d, done, user_id) == done[user_id] = 1

\* top_sort that graduates a user each time one of its sources arrives
top_sort_ready_any(d, done, user_id) == done[user_id] >= 1

\* top_sort: when a user graduates to the next frontier
top_sort_ready(d, done, user_id) == done[user_id] = Len(d.all_nodes[user_id].sources)

\* top_sort, body of the inner for loop
top_sort_visit(d, acc, user_id) ==
    LET done == [acc.done EXCEPT ![user_id] = @ + 1]
    IN [done |-> done,
        next_free |-> IF top_sort_ready(d, done, user_id)
                      THEN Append(acc.next_free, user_id) ELSE acc.next_free]

\* top_sort, one iteration of the while loop
top_sort_layer(d, st) ==
    LET r == FoldLeft(LAMBDA a, u : top_sort_visit(d, a, u),
                      [done |-> st.done, next_free |-> << >>],
                      users_in_turn(d, st.free))
    IN [free |-> r.next_free, done |-> r.done, res |-> Append(st.res, st.free)]

\* get_costs, locals before the loop (finish_nodes holds ids for the Rc<Node>)
get_costs_init(d) ==
    [res |-> [v \in DOMAIN d.all_nodes |-> 0],
     finish_nodes |-> (0 :> SortedSeq({v \in DOMAIN d.all_nodes : d.all_nodes[v].users = << >>})),
     visited |-> {}]

\* BTreeMap entry(key).or_insert(empty).push_back for each element of items
push_back_all(m, key, items) ==
    IF items = << >> THEN m
    ELSE IF key \in DOMAIN m THEN [m EXCEPT ![key] = @ \o items]
    ELSE (key :> items) @@ m

\* get_costs: the cost written for a node popped from bucket t
get_costs_new_cost(d, t, node) ==
    IF d.all_nodes[node].op # None THEN t + get_cost(d.all_nodes[node].op) ELSE t

\* get_costs without the test of `visited`: the cost is written at every visit
get_costs_step_revisit(d, st) ==
    LET t == MinOf(DOMAIN st.finish_nodes)
        v == st.finish_nodes[t]
        node == Head(v)
        fn == IF Tail(v) = << >> THEN Remove(st.finish_nodes, t)
              ELSE [st.finish_nodes EXCEPT ![t] = Tail(v)]
        new_cost == get_costs_new_cost(d, t, node)
    IN [res |-> [st.res EXCEPT ![node] = new_cost],
        finish_nodes |-> push_back_all(fn, new_cost, d.all_nodes[node].sources),
        visited |-> st.visited \cup {node}]

\* get_costs, one iteration of the while loop; the first bucket is not empty
get_costs_step(d, st) ==
    LET t == MinOf(DOMAIN st.finish_nodes)
        v == st.finish_nodes[t]
        node == Head(v)
        fn == IF Tail(v) = << >> THEN Remove(st.finish_nodes, t)
              ELSE [st.finish_nodes EXCEPT ![t] = Tail(v)]
        new_cost == get_costs_new_cost(d, t, node)
    IN IF node \in st.visited
       THEN [st EXCEPT !.finish_nodes = fn]
       ELSE [res |-> [st.res EXCEPT ![node] = new_cost],
             finish_nodes |-> push_back_all(fn, new_cost, d.all_nodes[node].sources),
             visited |-> st.visited \cup {node}]

\* get_costs: the assertion before the write of a cost
get_costs_assert(d, st) ==
    LET t == MinOf(DOMAIN st.finish_nodes)
        node == Head(st.finish_nodes[t])
    IN node \in st.visited \/ st.res[node] <= get_costs_new_cost(d, t, node)

\* efficient_sort, locals before the loop. `pushed` is history: the key of
\* `active` under which each id was pushed (it outlives the pop of the key).
efficient_sort_init(d) ==
    [res |-> d.inputs, cycles |-> 0,
     active |-> push_back_all(EmptyMap, 0, d.inputs),
     device |-> AragoSpec_default, free |-> EmptyMap,
     done |-> [v \in DOMAIN d.all_nodes |-> 0],
     pushed |-> [v \in Range(d.inputs) |-> 0]]

\* the while condition without its test of `free`
efficient_sort_cond_active(st) == DOMAIN st.active # {}

\* efficient_sort: the while condition
efficient_sort_cond(st) == DOMAIN st.active # {} \/ DOMAIN st.free # {}

\* the for loop over `free` leaving at the first opcode whose core is full,
\* instead of going on to the next opcode
RECURSIVE dispatch_scan_stop(_, _, _, _)
dispatch_scan_stop(ops, dev, free, cycles) ==
    IF ops = << >> THEN [device |-> dev, op |-> None, task_id |-> -1, weight |-> -1]
    ELSE LET op == Head(ops)
             nodes == free[op]
         IN IF DOMAIN nodes = {} THEN dispatch_scan_stop(Tail(ops), dev, free, cycles)
            ELSE LET core == get_core(op)
                     synced == Core_update_time(dev[core], cycles)
                     weight == MaxOf(DOMAIN nodes)
                     task_id == Last(nodes[weight])
                     r == Core_try_add(synced, info_cost(core), task_id, cycles)
                     dev1 == [dev EXCEPT ![core] = r.active]
                 IN IF r.ok
                    THEN [device |-> dev1, op |-> op, task_id |-> task_id, weight |-> weight]
                    ELSE [device |-> dev1, op |-> None, task_id |-> -1, weight |-> -1]

\* the for loop over `free` taking the first bucket (smallest cost) of an opcode
\* instead of the last
RECURSIVE dispatch_scan_lightest(_, _, _, _)
dispatch_scan_lightest(ops, dev, free, cycles) ==
    IF ops = << >> THEN [device |-> dev, op |-> None, task_id |-> -1, weight |-> -1]
    ELSE LET op == Head(ops)
             nodes == free[op]
         IN IF DOMAIN nodes = {} THEN dispatch_scan_lightest(Tail(ops), dev, free, cycles)
            ELSE LET core == get_core(op)
                     synced == Core_update_time(dev[core], cycles)
                     weight == MinOf(DOMAIN nodes)
                     task_id == Last(nodes[weight])
                     r == Core_try_add(synced, info_cost(core), task_id, cycles)
                     dev1 == [dev EXCEPT ![core] = r.active]
                 IN IF r.ok
                    THEN [device |-> dev1, op |-> op, task_id |-> task_id, weight |-> weight]
                    ELSE dispatch_scan_lightest(Tail(ops), dev1, free, cycles)

\* efficient_sort: the for loop over `free`, visiting its opcodes in the order
\* `ops`; the device after the update_time calls and the opcode dispatched
RECURSIVE dispatch_scan(_, _, _, _)
dispatch_scan(ops, dev, free, cycles) ==
    IF ops = << >> THEN [device |-> dev, op |-> None, task_id |-> -1, weight |-> -1]
    ELSE LET op == Head(ops)
             nodes == free[op]
         IN IF DOMAIN nodes = {} THEN dispatch_scan(Tail(ops), dev, free, cycles)
            ELSE LET core == get_core(op)
                     synced == Core_update_time(dev[core], cycles)
                     weight == MaxOf(DOMAIN nodes)
                     task_id == Last(nodes[weight])
                     r == Core_try_add(synced, info_cost(core), task_id, cycles)
                     dev1 == [dev EXCEPT ![core] = r.active]
                 IN IF r.ok
                    THEN [device |-> dev1, op |-> op, task_id |-> task_id, weight |-> weight]
                    ELSE dispatch_scan(Tail(ops), dev1, free, cycles)

\* the opcodes of `free` in the iteration order of the hash map
iter_order(hash_order, free) == SelectSeq(hash_order, LAMBDA op : op \in DOMAIN free)

\* efficient_sort: the dispatch of the task found by the for loop
efficient_sort_dispatch(st, scan) ==
    LET v == Front(st.free[scan.op][scan.weight])
        nodes == IF v = << >> THEN Remove(st.free[scan.op], scan.weight)
                 ELSE [st.free[scan.op] EXCEPT ![scan.weight] = v]
    IN [st EXCEPT !.device = scan.device,
                  !.active = push_back_all(@, st.cycles + get_cost(scan.op), <<scan.task_id>>),
                  !.res = Append(@, scan.task_id),
                  !.free = [@ EXCEPT ![scan.op] = nodes],
                  !.pushed = (scan.task_id :> st.cycles + get_cost(scan.op)) @@ @]

\* efficient_sort that enqueues a user as soon as its first source retires
efficient_sort_arrive_first(d, costs, acc, user) ==
    LET done == [acc.done EXCEPT ![user] = @ + 1]
        op == d.all_nodes[user].op
        entry == IF op \in DOMAIN acc.free THEN acc.free[op] ELSE EmptyMap
    IN IF acc.panic # "" THEN acc
       ELSE IF done[user] = 1
       THEN [done |-> done, panic |-> "",
             free |-> (op :> push_back_all(entry, costs[user], <<user>>)) @@ acc.free]
       ELSE [acc EXCEPT !.done = done]

\* efficient_sort: a retiring task reaches one of its users
efficient_sort_arrive(d, costs, acc, user) ==
    LET done == [acc.done EXCEPT ![user] = @ + 1]
        srcs == d.all_nodes[user].sources
        op == d.all_nodes[user].op
        entry == IF op \in DOMAIN acc.free THEN acc.free[op] ELSE EmptyMap
    IN IF acc.panic # "" THEN acc
       ELSE IF done[user] > Len(srcs)
       THEN [acc EXCEPT !.done = done, !.panic = "assert done <= srcs.len"]
       ELSE IF done[user] = Len(srcs)
       THEN (IF op = None
             THEN [acc EXCEPT !.done = done, !.panic = "unwrap of the opcode of an input node"]
             ELSE [done |-> done, panic |-> "",
                   free |-> (op :> push_back_all(entry, costs[user], <<user>>)) @@ acc.free])
       ELSE [acc EXCEPT !.done = done]

\* efficient_sort: nothing was dispatched and `active` is not empty
efficient_sort_advance(d, costs, st, scan) ==
    LET top == MinOf(DOMAIN st.active)
        tasks == st.active[top]
        r == FoldLeft(LAMBDA a, u : efficient_sort_arrive(d, costs, a, u),
                      [done |-> st.done, free |-> st.free, panic |-> ""],
                      users_in_turn(d, tasks))
    IN [st |-> [st EXCEPT !.device = scan.device, !.active = Remove(@, top),
                          !.cycles = Max2(top, st.cycles),
                          !.done = r.done, !.free = r.free],
        panic |-> r.panic]

(* ------------------------------ regalloc.rs ----------------------------- *)
\* Register::new(x as u8)
Register_new(x) == x % 256

\* RegAlloc::new
RegAlloc_new(reg_num) ==
    [free_regs |-> [chip \in DOMAIN reg_num |->
                      [x \in 1..reg_num[chip] |-> Register_new(x - 1)]],
     memory |-> [chip \in DOMAIN reg_num |-> EmptyMap]]

\* Ord for VecDeque<usize>: lexicographic, a proper prefix is smaller
RECURSIVE queue_less(_, _)
queue_less(a, b) ==
    IF b = << >> THEN FALSE
    ELSE IF a = << >> THEN TRUE
    ELSE IF Head(a) # Head(b) THEN Head(a) < Head(b)
    ELSE queue_less(Tail(a), Tail(b))

\* RegAlloc::sync_memory, the while loop for one id
RECURSIVE drop_used(_, _)
drop_used(q, i) ==
    IF q # << >> /\ Head(q) < i THEN drop_used(Tail(q), i) ELSE q

\* RegAlloc::sync_memory
sync_memory(memory, users, i) ==
    [id \in DOMAIN users |->
        IF \E chip \in DOMAIN memory : id \in DOMAIN memory[chip]
        THEN drop_used(users[id], i) ELSE users[id]]

\* RegAlloc::alloc_reg: the ids max_by can return. It returns the last of the
\* greatest elements in the iteration order of the hash map, so any resident
\* with a greatest queue.
evict_candidates(mem, users) ==
    {id \in DOMAIN mem : \A other \in DOMAIN mem : ~queue_less(users[id], users[other])}

\* alloc_reg that hands out the victim's register and leaves the victim resident
alloc_reg_keep_victim(alloc, chip, users, victim) ==
    LET full == alloc.free_regs[chip] = << >>
        regs == IF full THEN <<alloc.memory[chip][victim]>> ELSE alloc.free_regs[chip]
    IN [free_regs |-> [alloc.free_regs EXCEPT ![chip] = Front(regs)],
        memory |-> alloc.memory,
        reg |-> Last(regs),
        evicted |-> IF full
                    THEN Some([chip |-> chip, id |-> victim,
                               queues |-> [id \in DOMAIN alloc.memory[chip] |-> users[id]]])
                    ELSE NoneOpt]

\* RegAlloc::alloc_reg with `victim` the id max_by returns when it is called
alloc_reg(alloc, chip, users, victim) ==
    LET full == alloc.free_regs[chip] = << >>
        mem == IF full THEN Remove(alloc.memory[chip], victim) ELSE alloc.memory[chip]
        regs == IF full THEN <<alloc.memory[chip][victim]>> ELSE alloc.free_regs[chip]
    IN [free_regs |-> [alloc.free_regs EXCEPT ![chip] = Front(regs)],
        memory |-> [alloc.memory EXCEPT ![chip] = mem],
        reg |-> Last(regs),
        evicted |-> IF full
                    THEN Some([chip |-> chip, id |-> victim,
                               queues |-> [id \in DOMAIN alloc.memory[chip] |-> users[id]]])
                    ELSE NoneOpt]

\* RegAlloc::alloc_reg: no register is free and max_by finds no resident to
\* evict, so its unwrap panics
alloc_reg_fails(alloc, chip) ==
    alloc.free_regs[chip] = << >> /\ DOMAIN alloc.memory[chip] = {}

\* the victims alloc_reg may pick: irrelevant (one dummy) while a register is free
victims(alloc, chip, users) ==
    IF alloc.free_regs[chip] = << >> THEN evict_candidates(alloc.memory[chip], users) ELSE {-1}

\* Instruction::new
Instruction_new(id, res_reg, pre_move) == [id |-> id, res_reg |-> res_reg, pre_move |-> pre_move]

\* regalloc, locals before the loop over (i, (inst, chip)); i is 0-based, j is
\* the position in the body of step i: 0 before sync_memory, then the j-th source
regalloc_init(reg_num, order, inputs, users) ==
    [alloc |-> RegAlloc_new(reg_num), reg_num |-> reg_num,
     order |-> order, inputs |-> inputs, users |-> users,
     res |-> << >>, i |-> 0, j |-> 0, ins |-> << >>, evicted |-> NoneOpt]

\* regalloc: the call of sync_memory that opens step i
regalloc_sync(st) ==
    [st EXCEPT !.users = sync_memory(st.alloc.memory, st.users, st.i), !.j = 1,
               !.evicted = NoneOpt]

\* regalloc, step i for a global input
regalloc_input(st, victim) ==
    LET inst == st.order[st.i + 1][1]
        a == alloc_reg(st.alloc, "Scalar", st.users, victim)
    IN [st EXCEPT !.alloc = [free_regs |-> a.free_regs,
                             memory |-> [a.memory EXCEPT !["Scalar"] = (inst :> a.reg) @@ @]],
                  !.res = Append(@, Instruction_new(inst, a.reg, << >>)),
                  !.evicted = a.evicted, !.i = @ + 1, !.j = 0]

\* regalloc: whether a source must be moved to the chip
needs_move(memory, chip, id) == id \notin DOMAIN memory[chip]

\* regalloc, step i for an instruction: the body of the loop over its inputs
regalloc_source(st, victim) ==
    LET inst == st.order[st.i + 1][1]
        chip == st.order[st.i + 1][2]
        id == st.inputs[inst][st.j]
        a == alloc_reg(st.alloc, chip, st.users, victim)
    IN IF needs_move(st.alloc.memory, chip, id)
       THEN [st EXCEPT !.alloc = [free_regs |-> a.free_regs,
                                  memory |-> [a.memory EXCEPT ![chip] = (id :> a.reg) @@ @]],
                       !.ins = Append(@, <<id, a.reg>>),
                       !.evicted = a.evicted, !.j = @ + 1]
       ELSE [st EXCEPT !.evicted = NoneOpt, !.j = @ + 1]

\* regalloc that emits the instruction without binding the result register to
\* the instruction's id
regalloc_emit_unbound(st, victim) ==
    LET inst == st.order[st.i + 1][1]
        chip == st.order[st.i + 1][2]
        a == alloc_reg(st.alloc, chip, st.users, victim)
    IN [st EXCEPT !.alloc = [free_regs |-> a.free_regs, memory |-> a.memory],
                  !.res = Append(@, Instruction_new(inst, a.reg, st.ins)),
                  !.ins = << >>, !.evicted = a.evicted, !.i = @ + 1, !.j = 0]

\* regalloc, step i for an instruction: the result register and the instruction
regalloc_emit(st, victim) ==
    LET inst == st.order[st.i + 1][1]
        chip == st.order[st.i + 1][2]
        a == alloc_reg(st.alloc, chip, st.users, victim)
    IN [st EXCEPT !.alloc = [free_regs |-> a.free_regs,
                             memory |-> [a.memory EXCEPT ![chip] = (inst :> a.reg) @@ @]],
                  !.res = Append(@, Instruction_new(inst, a.reg, st.ins)),
                  !.ins = << >>, !.evicted = a.evicted, !.i = @ + 1, !.j = 0]

(* ------------------------------ scheduler.rs ---------------------------- *)
\* Scheduler::map_id_to_order: a later position of an id overwrites an earlier one
map_id_to_order(order) ==
    [id \in Range(order) |-> MaxOf({k \in DOMAIN order : order[k] = id}) - 1]

\* optimal_execute: chip_order
chip_order_of(d, order) ==
    [k \in DOMAIN order |->
        <<order[k], IF d.all_nodes[order[k]].op = None THEN None
                    ELSE info_chip(get_core(d.all_nodes[order[k]].op))>>]

\* optimal_execute: the use queue of every id, in the order of its `users`
users_by_step(d, order) ==
    LET id_to_order == map_id_to_order(order)
    IN [id \in DOMAIN d.all_nodes |->
          [k \in DOMAIN d.all_nodes[id].users |-> id_to_order[d.all_nodes[id].users[k]]]]

\* optimal_execute: inputs
inputs_of(d) == [id \in DOMAIN d.all_nodes |-> d.all_nodes[id].sources]

\* baseline_execute: the instruction of one id
baseline_instruction(d, id) ==
    LET srcs == d.all_nodes[id].sources
    IN Instruction_new(id, Register_new(Len(srcs)),
                       [k \in DOMAIN srcs |-> <<srcs[k], Register_new(k - 1)>>])

\* baseline_execute: the instruction list of an order
baseline_moves(d, order) == [k \in DOMAIN order |-> baseline_instruction(d, order[k])]

(* ------------------------------ input DAGs ------------------------------ *)
\* Opcodes used by the enumerated DAGs: one per core
OpChoices == {"VScaMul", "VMax"}

Pairs(n) == {p \in Ids(n) \X Ids(n) : p[1] # p[2]}
EdgeSets(n) == {Range(s) : s \in UNION {[1..k -> Pairs(n)] : k \in 0..MaxEdges}}

\* Acyclic: repeatedly remove the nodes without an incoming edge
RECURSIVE Peels(_, _)
Peels(S, E) ==
    LET roots == {v \in S : ~\E e \in E : e[2] = v /\ e[1] \in S}
    IN IF S = {} THEN TRUE ELSE IF roots = {} THEN FALSE ELSE Peels(S \ roots, E)
Acyclic(n, E) == Peels(Ids(n), E)

\* the edge list of an edge set, in ascending (from, to) order
RECURSIVE EdgeSeq(_)
EdgeSeq(E) ==
    IF E = {} THEN << >>
    ELSE LET e == CHOOSE x \in E : \A y \in E : x[1] < y[1] \/ (x[1] = y[1] /\ x[2] <= y[2])
         IN <<e>> \o EdgeSeq(E \ {e})

\* Well-formed inputs of Dag::new with n nodes: acyclic, a node has an opcode
\* exactly when it has a source
SmallInputs(n) ==
    UNION {{[nodes |-> [v \in Ids(n) |-> IF v \in DOMAIN f THEN f[v] ELSE None],
             edges |-> EdgeSeq(E)] : f \in [{e[2] : e \in E} -> OpChoices]} :
           E \in {X \in EdgeSets(n) : Acyclic(n, X)}}

\* main.rs: the 15-node demo DAG
DemoInput ==
    [nodes |-> [v \in 0..14 |-> IF v <= 6 THEN "VScaMul" ELSE IF v <= 13 THEN "VMax" ELSE None],
     edges |-> << <<14, 0>>, <<14, 1>>, <<14, 2>>, <<14, 3>>,
                  <<14, 7>>, <<14, 8>>, <<14, 9>>, <<14, 10>>,
                  <<0, 4>>, <<1, 4>>, <<2, 5>>, <<3, 5>>, <<4, 6>>, <<5, 6>>,
                  <<7, 11>>, <<8, 11>>, <<9, 12>>, <<10, 12>>, <<11, 13>>, <<12, 13>> >>]

\* one input feeding a VScaMul whose result feeds a VMax and a VScaMul
ForkInput ==
    [nodes |-> [v \in 0..3 |-> IF v = 3 THEN None ELSE IF v = 1 THEN "VMax" ELSE "VScaMul"],
     edges |-> << <<0, 1>>, <<0, 2>>, <<3, 0>> >>]

\* max_reg + 1 nodes: max_reg inputs, the first one read by one VAdd
WideInput ==
    [nodes |-> [v \in 0..max_reg |-> IF v = max_reg THEN "VAdd" ELSE None],
     edges |-> << <<0, max_reg>> >>]

\* chain of three VAdd below one input
ChainInput ==
    [nodes |-> [v \in 0..3 |-> IF v = 0 THEN None ELSE "VAdd"],
     edges |-> << <<0, 1>>, <<1, 2>>, <<2, 3>> >>]

\* one input feeding one VScaMul
PairInput ==
    [nodes |-> [v \in 0..1 |-> IF v = 0 THEN None ELSE "VScaMul"],
     edges |-> << <<0, 1>> >>]

\* one input feeding two VMax, one of which feeds a third VMax: two tasks of
\* one opcode are ready together with different costs
SkewInput ==
    [nodes |-> [v \in 0..3 |-> IF v = 0 THEN None ELSE "VMax"],
     edges |-> << <<0, 1>>, <<0, 2>>, <<1, 3>> >>]

DagInputs == UNION {SmallInputs(n) : n \in 1..MaxNodes}
             \cup {DemoInput, ForkInput, WideInput, ChainInput, PairInput, SkewInput}

\* Dag::new panics while it adds the edges: all_nodes[from] / all_nodes[to] is
\* out of bounds, or from = to and Node::add borrows the RefCell it holds mutably
Dag_new_panic(in_nodes, edges) ==
    IF \E k \in DOMAIN edges : edges[k][1] \notin DOMAIN in_nodes \/ edges[k][2] \notin DOMAIN in_nodes
    THEN "index out of bounds"
    ELSE IF \E k \in DOMAIN edges : edges[k][1] = edges[k][2]
    THEN "already mutably borrowed"
    ELSE ""

\* Structurally bad inputs of Dag::new: a well-formed input with one more edge
\* that closes a cycle, or one more edge with an id outside 0..N, or with the
\* opcode of a node that has a source taken away
CycleInputs(in) ==
    {[nodes |-> in.nodes, edges |-> Append(in.edges, e)] :
        e \in {x \in (DOMAIN in.nodes) \X (DOMAIN in.nodes) :
                  ~Peels(DOMAIN in.nodes, Range(in.edges) \cup {x})}}
DanglingInputs(in) ==
    LET n == Cardinality(DOMAIN in.nodes)
    IN {[nodes |-> in.nodes, edges |-> Append(in.edges, e)] :
          e \in ({n} \X (DOMAIN in.nodes)) \cup ((DOMAIN in.nodes) \X {n})}
OpLessInputs(in) ==
    {[nodes |-> [in.nodes EXCEPT ![v] = None], edges |-> in.edges] :
        v \in {in.edges[k][2] : k \in DOMAIN in.edges}}
BadInputs(max_nodes) ==
    UNION {CycleInputs(in) \cup DanglingInputs(in) \cup OpLessInputs(in) :
             in \in UNION {SmallInputs(n) : n \in 1..max_nodes}}

DemoDag == Dag_new(DemoInput.nodes, DemoInput.edges)
ForkDag == Dag_new(ForkInput.nodes, ForkInput.edges)
WideDag == Dag_new(WideInput.nodes, WideInput.edges)
ChainDag == Dag_new(ChainInput.nodes, ChainInput.edges)
PairDag == Dag_new(PairInput.nodes, PairInput.edges)

(* ------------------------------- the state ------------------------------ *)
VARIABLES
    dag,        \* the Dag held by the Scheduler
    pc,         \* the function of the program that is running
    panic,      \* "" or the assertion / unwrap that ended the program
    mode,       \* "baseline" or "optimal": the entry point that is running
    ts,         \* locals of top_sort
    gc,         \* locals of get_costs
    es,         \* locals of efficient_sort
    hash_order, \* iteration order of the HashMap `free` of efficient_sort
    ra,         \* locals of regalloc and the RegAlloc it owns
    ex,         \* locals of exec_time: order, moves and the position in them
    device,     \* the AragoSpec that is replayed on
    baseline,   \* Some(<<time, order>>) once baseline_execute has returned
    optimal,    \* Some(<<time, order>>) once optimal_execute has returned
    first_run,  \* the result of an earlier run of optimal_execute on this Dag
    calls       \* number of calls made on a free-standing device

vars == <<dag, pc, panic, mode, ts, gc, es, hash_order, ra, ex, device,
          baseline, optimal, first_run, calls>>

Idle == << >>

\* the permutations of a finite set
Perms(S) == {s \in [1..Cardinality(S) -> S] : Range(s) = S}

\* the opcodes of a Dag: the keys `free` can get
OpsOf(d) == {d.all_nodes[v].op : v \in DOMAIN d.all_nodes} \ {None}

\* register counts per chip: the device's own and, for the enumerated DAGs,
\* smaller register files
RegChoices(d) == {max_reg} \cup (IF NumNodes(d) <= MaxNodes THEN 1..MaxReg ELSE {})

exec_time_init(order, moves) == [order |-> order, moves |-> moves, ip |-> 1, pm |-> 1]

\* main: the Dag is built and baseline_execute is entered
Init ==
    /\ dag \in {Dag_new(in.nodes, in.edges) : in \in DagInputs}
    /\ pc = "top_sort"
    /\ panic = ""
    /\ mode = "baseline"
    /\ ts = top_sort_init(dag)
    /\ gc = Idle /\ es = Idle /\ hash_order = Idle /\ ra = Idle /\ ex = Idle
    /\ device = AragoSpec_default
    /\ baseline = NoneOpt /\ optimal = NoneOpt /\ first_run = NoneOpt
    /\ calls = 0

(* ------------------------------ the actions ----------------------------- *)
\* top_sort: one iteration of the while loop
top_sort_iter ==
    /\ pc = "top_sort" /\ panic = ""
    /\ ts.free # << >>
    /\ ts' = top_sort_layer(dag, ts)
    /\ UNCHANGED <<dag, pc, panic, mode, gc, es, hash_order, ra, ex, device,
                   baseline, optimal, first_run, calls>>

\* baseline_execute: top_sort has returned; the order and the moves are built
baseline_execute_moves ==
    /\ pc = "top_sort" /\ panic = ""
    /\ ts.free = << >>
    /\ LET order == Flatten(ts.res)
       IN ex' = exec_time_init(order, baseline_moves(dag, order))
    /\ pc' = "exec_time"
    /\ UNCHANGED <<dag, panic, mode, ts, gc, es, hash_order, ra, device,
                   baseline, optimal, first_run, calls>>

\* exec_time: one to_device of the pre_move loop
exec_time_pre_move ==
    /\ pc = "exec_time" /\ panic = ""
    /\ ex.ip <= Len(ex.moves)
    /\ ex.pm <= Len(ex.moves[ex.ip].pre_move)
    /\ LET mv == ex.moves[ex.ip].pre_move[ex.pm]
       IN device' = to_device(device, mv[1], mv[2])
    /\ ex' = [ex EXCEPT !.pm = @ + 1]
    /\ UNCHANGED <<dag, pc, panic, mode, ts, gc, es, hash_order, ra,
                   baseline, optimal, first_run, calls>>

\* exec_time: the instruction itself, schedule for an op and to_device for an input
exec_time_inst ==
    /\ pc = "exec_time" /\ panic = ""
    /\ ex.ip <= Len(ex.moves)
    /\ ex.pm > Len(ex.moves[ex.ip].pre_move)
    /\ LET inst == ex.moves[ex.ip]
           op == dag.all_nodes[inst.id].op
           required == Range(dag.all_nodes[inst.id].sources)
       IN IF op = None
          THEN device' = to_device(device, inst.id, inst.res_reg) /\ UNCHANGED panic
          ELSE IF inputs_bound(device, required)
          THEN device' = schedule(device, op, inst.id, inst.res_reg) /\ UNCHANGED panic
          ELSE panic' = "assert active_memory.contains_key(input)" /\ UNCHANGED device
    /\ ex' = [ex EXCEPT !.ip = @ + 1, !.pm = 1]
    /\ UNCHANGED <<dag, pc, mode, ts, gc, es, hash_order, ra,
                   baseline, optimal, first_run, calls>>

\* elapsed_time: one call of step that pops a task
elapsed_time_step ==
    /\ pc = "exec_time" /\ panic = ""
    /\ ex.ip > Len(ex.moves)
    /\ step_core(device) # None
    /\ device' = step(device)
    /\ UNCHANGED <<dag, pc, panic, mode, ts, gc, es, hash_order, ra, ex,
                   baseline, optimal, first_run, calls>>

\* baseline_execute returns; main enters optimal_execute, which makes a fresh
\* device and calls efficient_sort, which calls get_costs
baseline_execute_return ==
    /\ pc = "exec_time" /\ panic = "" /\ mode = "baseline"
    /\ ex.ip > Len(ex.moves)
    /\ step_core(device) = None
    /\ baseline' = Some(<<device.time, ex.order>>)
    /\ mode' = "optimal"
    /\ device' = AragoSpec_default
    /\ gc' = get_costs_init(dag)
    /\ pc' = "get_costs"
    /\ UNCHANGED <<dag, panic, ts, es, hash_order, ra, ex, optimal, first_run, calls>>

\* get_costs: one iteration of the while loop
get_costs_iter ==
    /\ pc = "get_costs" /\ panic = ""
    /\ DOMAIN gc.finish_nodes # {}
    /\ IF gc.finish_nodes[MinOf(DOMAIN gc.finish_nodes)] = << >>
       THEN panic' = "unwrap of pop_front on an empty bucket" /\ UNCHANGED gc
       ELSE IF ~get_costs_assert(dag, gc)
       THEN panic' = "assert res[id] <= new_cost" /\ UNCHANGED gc
       ELSE gc' = get_costs_step(dag, gc) /\ UNCHANGED panic
    /\ UNCHANGED <<dag, pc, mode, ts, es, hash_order, ra, ex, device,
                   baseline, optimal, first_run, calls>>

\* get_costs returns to efficient_sort, which sets up its loop; the iteration
\* order of its hash map is that of this run
get_costs_return ==
    /\ pc = "get_costs" /\ panic = ""
    /\ DOMAIN gc.finish_nodes = {}
    /\ es' = efficient_sort_init(dag)
    /\ hash_order' \in Perms(OpsOf(dag))
    /\ pc' = "efficient_sort"
    /\ UNCHANGED <<dag, panic, mode, ts, gc, ra, ex, device,
                   baseline, optimal, first_run, calls>>

\* the for loop over `free` of the current iteration of efficient_sort
es_scan == dispatch_scan(iter_order(hash_order, es.free), es.device, es.free, es.cycles)

\* efficient_sort: an iteration that dispatches a task
efficient_sort_dispatch_iter ==
    /\ pc = "efficient_sort" /\ panic = ""
    /\ efficient_sort_cond(es)
    /\ es_scan.op # None
    /\ IF Contains(es.res, es_scan.task_id)
       THEN panic' = "assert !res.contains(task_id)" /\ UNCHANGED es
       ELSE es' = efficient_sort_dispatch(es, es_scan) /\ UNCHANGED panic
    /\ UNCHANGED <<dag, pc, mode, ts, gc, hash_order, ra, ex, device,
                   baseline, optimal, first_run, calls>>

\* efficient_sort: an iteration that dispatches nothing and advances the time
efficient_sort_advance_iter ==
    /\ pc = "efficient_sort" /\ panic = ""
    /\ efficient_sort_cond(es)
    /\ es_scan.op = None
    /\ DOMAIN es.active # {}
    /\ LET r == efficient_sort_advance(dag, gc.res, es, es_scan)
       IN es' = r.st /\ panic' = r.panic
    /\ UNCHANGED <<dag, pc, mode, ts, gc, hash_order, ra, ex, device,
                   baseline, optimal, first_run, calls>>

\* efficient_sort leaves its loop and returns; optimal_execute builds the
\* allocator's inputs and regalloc starts. reg_num is reg_stat or, in the first
\* run, a smaller register file.
efficient_sort_return ==
    /\ pc = "efficient_sort" /\ panic = ""
    /\ ~efficient_sort_cond(es) \/ (es_scan.op = None /\ DOMAIN es.active = {})
    /\ IF Len(es.res) # NumNodes(dag)
       THEN panic' = "assert_eq res.len() all_nodes.len()" /\ UNCHANGED <<ra, pc>>
       ELSE /\ \E n \in (IF first_run = NoneOpt THEN RegChoices(dag) ELSE {max_reg}) :
                 ra' = regalloc_init([chip \in ChipType |-> n], chip_order_of(dag, es.res),
                                     inputs_of(dag), users_by_step(dag, es.res))
            /\ pc' = "regalloc"
            /\ UNCHANGED panic
    /\ UNCHANGED <<dag, mode, ts, gc, es, hash_order, ex, device,
                   baseline, optimal, first_run, calls>>

\* regalloc: sync_memory at the head of step i
regalloc_sync_step ==
    /\ pc = "regalloc" /\ panic = ""
    /\ ra.i < Len(ra.order) /\ ra.j = 0
    /\ ra' = regalloc_sync(ra)
    /\ UNCHANGED <<dag, pc, panic, mode, ts, gc, es, hash_order, ex, device,
                   baseline, optimal, first_run, calls>>

\* regalloc: step i of a global input
regalloc_input_step ==
    /\ pc = "regalloc" /\ panic = ""
    /\ ra.i < Len(ra.order) /\ ra.j = 1
    /\ ra.order[ra.i + 1][2] = None
    /\ IF ra.inputs[ra.order[ra.i + 1][1]] # << >>
       THEN panic' = "assert inputs[inst].is_empty()" /\ UNCHANGED ra
       ELSE IF alloc_reg_fails(ra.alloc, "Scalar")
       THEN panic' = "unwrap of max_by on an empty memory" /\ UNCHANGED ra
       ELSE /\ \E victim \in victims(ra.alloc, "Scalar", ra.users) :
                 ra' = regalloc_input(ra, victim)
            /\ UNCHANGED panic
    /\ UNCHANGED <<dag, pc, mode, ts, gc, es, hash_order, ex, device,
                   baseline, optimal, first_run, calls>>

\* regalloc: step i of an instruction, one of its sources
regalloc_source_step ==
    /\ pc = "regalloc" /\ panic = ""
    /\ ra.i < Len(ra.order) /\ ra.j >= 1
    /\ ra.order[ra.i + 1][2] # None
    /\ ra.j <= Len(ra.inputs[ra.order[ra.i + 1][1]])
    /\ LET inst == ra.order[ra.i + 1][1]
           chip == ra.order[ra.i + 1][2]
       IN IF needs_move(ra.alloc.memory, chip, ra.inputs[inst][ra.j])
             /\ alloc_reg_fails(ra.alloc, chip)
          THEN panic' = "unwrap of max_by on an empty memory" /\ UNCHANGED ra
          ELSE /\ \E victim \in victims(ra.alloc, chip, ra.users) :
                    ra' = regalloc_source(ra, victim)
               /\ UNCHANGED panic
    /\ UNCHANGED <<dag, pc, mode, ts, gc, es, hash_order, ex, device,
                   baseline, optimal, first_run, calls>>

\* regalloc: step i of an instruction, its result register
regalloc_emit_step ==
    /\ pc = "regalloc" /\ panic = ""
    /\ ra.i < Len(ra.order) /\ ra.j >= 1
    /\ ra.order[ra.i + 1][2] # None
    /\ ra.j > Len(ra.inputs[ra.order[ra.i + 1][1]])
    /\ IF alloc_reg_fails(ra.alloc, ra.order[ra.i + 1][2])
       THEN panic' = "unwrap of max_by on an empty memory" /\ UNCHANGED ra
       ELSE /\ \E victim \in victims(ra.alloc, ra.order[ra.i + 1][2], ra.users) :
                 ra' = regalloc_emit(ra, victim)
            /\ UNCHANGED panic
    /\ UNCHANGED <<dag, pc, mode, ts, gc, es, hash_order, ex, device,
                   baseline, optimal, first_run, calls>>

\* regalloc returns; optimal_execute calls exec_time with its device
regalloc_return ==
    /\ pc = "regalloc" /\ panic = ""
    /\ ra.i = Len(ra.order)
    /\ ex' = exec_time_init(es.res, ra.res)
    /\ pc' = "exec_time"
    /\ UNCHANGED <<dag, panic, mode, ts, gc, es, hash_order, ra, device,
                   baseline, optimal, first_run, calls>>

\* optimal_execute returns
optimal_execute_return ==
    /\ pc = "exec_time" /\ panic = "" /\ mode = "optimal"
    /\ ex.ip > Len(ex.moves)
    /\ step_core(device) = None
    /\ optimal' = Some(<<device.time, ex.order>>)
    /\ pc' = "done"
    /\ UNCHANGED <<dag, panic, mode, ts, gc, es, hash_order, ra, ex, device,
                   baseline, first_run, calls>>

\* the program is run once more on the same Dag: optimal_execute starts again
\* with new hash maps
optimal_execute_again ==
    /\ pc = "done" /\ panic = ""
    /\ first_run = NoneOpt
    /\ ra.reg_num = reg_stat
    /\ first_run' = optimal
    /\ optimal' = NoneOpt
    /\ device' = AragoSpec_default
    /\ gc' = get_costs_init(dag)
    /\ pc' = "get_costs"
    /\ UNCHANGED <<dag, panic, mode, ts, es, hash_order, ra, ex, baseline, calls>>

Next ==
    \/ top_sort_iter
    \/ baseline_execute_moves
    \/ exec_time_pre_move
    \/ exec_time_inst
    \/ elapsed_time_step
    \/ baseline_execute_return
    \/ get_costs_iter
    \/ get_costs_return
    \/ efficient_sort_dispatch_iter
    \/ efficient_sort_advance_iter
    \/ efficient_sort_return
    \/ regalloc_sync_step
    \/ regalloc_input_step
    \/ regalloc_source_step
    \/ regalloc_emit_step
    \/ regalloc_return
    \/ optimal_execute_return
    \/ optimal_execute_again

Spec == Init /\ [][Next]_vars

\* main up to the return of efficient_sort. The program is sequential and runs
\* on: an iteration of the loop of efficient_sort that can be taken is taken,
\* and so is its return.
SortNext ==
    \/ top_sort_iter
    \/ baseline_execute_moves
    \/ exec_time_pre_move
    \/ exec_time_inst
    \/ elapsed_time_step
    \/ baseline_execute_return
    \/ get_costs_iter
    \/ get_costs_return
    \/ efficient_sort_dispatch_iter
    \/ efficient_sort_advance_iter
    \/ efficient_sort_return

FairSpec ==
    /\ Init /\ [][SortNext]_vars
    /\ WF_vars(\/ efficient_sort_dispatch_iter
               \/ efficient_sort_advance_iter
               \/ efficient_sort_return)

(* --------------------------- any input of main -------------------------- *)
\* main with any input of Dag::new, structurally bad ones included
AnyInit ==
    /\ \E in \in DagInputs \cup BadInputs(MaxNodes) :
          IF Dag_new_panic(in.nodes, in.edges) # ""
          THEN /\ dag = Idle /\ ts = Idle /\ pc = "Dag_new"
               /\ panic = Dag_new_panic(in.nodes, in.edges)
          ELSE /\ dag = Dag_new(in.nodes, in.edges) /\ ts = top_sort_init(dag)
               /\ pc = "top_sort" /\ panic = ""
    /\ mode = "baseline"
    /\ gc = Idle /\ es = Idle /\ hash_order = Idle /\ ra = Idle /\ ex = Idle
    /\ device = AragoSpec_default
    /\ baseline = NoneOpt /\ optimal = NoneOpt /\ first_run = NoneOpt
    /\ calls = 0

AnySpec == AnyInit /\ [][Next]_vars

(* ------------------------ a free-standing device ------------------------ *)
\* Any sequence of at most MaxCalls to_device / schedule calls, with calls of
\* elapsed_time in between, on one AragoSpec.
DevIds == 0..1
DevRegs == 0..1

DevInit ==
    /\ dag = Idle /\ pc = "device" /\ panic = "" /\ mode = Idle
    /\ ts = Idle /\ gc = Idle /\ es = Idle /\ hash_order = Idle /\ ra = Idle /\ ex = Idle
    /\ device = AragoSpec_default
    /\ baseline = NoneOpt /\ optimal = NoneOpt /\ first_run = NoneOpt
    /\ calls = 0

\* a call of to_device
dev_to_device ==
    /\ pc = "device" /\ panic = "" /\ calls < MaxCalls
    /\ \E id \in DevIds, reg \in DevRegs : device' = to_device(device, id, reg)
    /\ calls' = calls + 1
    /\ UNCHANGED <<dag, pc, panic, mode, ts, gc, es, hash_order, ra, ex,
                   baseline, optimal, first_run>>

\* the pre_move loop of exec_time on its own: to_device once per move, in the
\* order of the list (first half, then second half; the test on the clock, which
\* every to_device advances, has the first half evaluated before the second)
RECURSIVE pre_moves(_, _)
pre_moves(dev, moves) ==
    IF moves = << >> THEN dev
    ELSE IF Len(moves) = 1 THEN to_device(dev, moves[1][1], moves[1][2])
    ELSE LET half == Len(moves) \div 2
             first == pre_moves(dev, SubSeq(moves, 1, half))
         IN IF first.time > dev.time
            THEN pre_moves(first, SubSeq(moves, half + 1, Len(moves)))
            ELSE first

\* a pre_move list long enough for the clock to go from the dispatch of a
\* pointwise task to one OPAC cost before its completion
LongPreMove(id, reg) == [k \in 1 .. (POINTWISE_COST - OPAC_COST) |-> <<id, reg>>]

\* the moves of one instruction with a long pre_move list, one after the other
dev_pre_moves ==
    /\ pc = "device" /\ panic = "" /\ calls < MaxCalls
    /\ \E moves \in {LongPreMove(0, 0)} : device' = pre_moves(device, moves)
    /\ calls' = calls + 1
    /\ UNCHANGED <<dag, pc, panic, mode, ts, gc, es, hash_order, ra, ex,
                   baseline, optimal, first_run>>

\* a call of schedule
dev_schedule ==
    /\ pc = "device" /\ panic = "" /\ calls < MaxCalls
    /\ \E op \in OpChoices, id \in DevIds, reg \in DevRegs, inputs \in SUBSET DevIds :
          IF inputs_bound(device, inputs)
          THEN device' = schedule(device, op, id, reg) /\ UNCHANGED panic
          ELSE panic' = "assert active_memory.contains_key(input)" /\ UNCHANGED device
    /\ calls' = calls + 1
    /\ UNCHANGED <<dag, pc, mode, ts, gc, es, hash_order, ra, ex,
                   baseline, optimal, first_run>>

\* a call of elapsed_time
dev_elapsed_time ==
    /\ pc = "device" /\ panic = ""
    /\ pc' = "elapsed_time"
    /\ UNCHANGED <<dag, panic, mode, ts, gc, es, hash_order, ra, ex, device,
                   baseline, optimal, first_run, calls>>

\* elapsed_time: one call of step that pops a task
dev_step ==
    /\ pc = "elapsed_time" /\ panic = ""
    /\ step_core(device) # None
    /\ device' = step(device)
    /\ UNCHANGED <<dag, pc, panic, mode, ts, gc, es, hash_order, ra, ex,
                   baseline, optimal, first_run, calls>>

\* elapsed_time returns
dev_elapsed_time_return ==
    /\ pc = "elapsed_time" /\ panic = ""
    /\ step_core(device) = None
    /\ pc' = "device"
    /\ UNCHANGED <<dag, panic, mode, ts, gc, es, hash_order, ra, ex, device,
                   baseline, optimal, first_run, calls>>

DevNext ==
    \/ dev_to_device
    \/ dev_schedule
    \/ dev_elapsed_time
    \/ dev_step
    \/ dev_elapsed_time_return

DevSpec == DevInit /\ [][DevNext]_vars

\* elapsed_time is a loop without a wait: a call that has started keeps
\* stepping and returns
DevFairSpec == DevSpec /\ WF_vars(dev_step \/ dev_elapsed_time_return)

\* The same, with instructions that have a long pre_move list: the clock can
\* reach the completion time of a pointwise task that is in flight.
DrainNext ==
    \/ dev_to_device
    \/ dev_pre_moves
    \/ dev_schedule
    \/ dev_elapsed_time
    \/ dev_step
    \/ dev_elapsed_time_return

DrainSpec == DevInit /\ [][DrainNext]_vars

(* ------------------------------ the claims ------------------------------ *)
time_of(result) == result[1][1]
order_of(result) == result[1][2]

Positions(order, x) == {k \in DOMAIN order : order[k] = x}

\* every edge (u, v): u and v occur, and u only at smaller indices than v
ValidTopSort(d, order) ==
    \A e \in EdgeSet(d) :
        /\ Positions(order, e[1]) # {} /\ Positions(order, e[2]) # {}
        /\ \A i \in Positions(order, e[1]), j \in Positions(order, e[2]) : i < j

\* C1: the orders returned by baseline_execute and by optimal_execute are
\* topological sorts of the Dag: for every edge (u, v), u is at a strictly
\* smaller index than v.
C1_TopologicalOrders ==
    /\ baseline # NoneOpt => ValidTopSort(dag, order_of(baseline))
    /\ optimal # NoneOpt => ValidTopSort(dag, order_of(optimal))

C1_Witness ==
    /\ pc = "done" /\ baseline # NoneOpt /\ optimal # NoneOpt
    /\ Cardinality(EdgeSet(dag)) >= 3

IsPermutation(d, order) ==
    /\ Len(order) = NumNodes(d)
    /\ \A v \in DOMAIN d.all_nodes : Cardinality(Positions(order, v)) = 1

\* C2: the orders returned by baseline_execute and by optimal_execute are
\* permutations of 0..N: every id exactly once.
C2_Permutations ==
    /\ baseline # NoneOpt => IsPermutation(dag, order_of(baseline))
    /\ optimal # NoneOpt => IsPermutation(dag, order_of(optimal))

C2_Witness ==
    /\ pc = "done" /\ baseline # NoneOpt /\ optimal # NoneOpt
    /\ NumNodes(dag) >= 3
    /\ order_of(baseline) # order_of(optimal)

\* a Dag with a VScaMul node and an op node that is not VScaMul
Mixed(d) ==
    /\ \E v \in DOMAIN d.all_nodes : d.all_nodes[v].op = "VScaMul"
    /\ \E v \in DOMAIN d.all_nodes : d.all_nodes[v].op \in Scalar_ops

\* C3 (as claimed): on a Dag with a VScaMul node and another op node, the time
\* of optimal_execute (with the device's register files) is at most the time of
\* baseline_execute, whatever the iteration order of the hash map.
C3_OptimalNotSlower ==
    (pc = "done" /\ Mixed(dag) /\ ra.reg_num = reg_stat)
        => time_of(optimal) <= time_of(baseline)

\* longest path to a sink: own cost plus the greatest cost of a user
RECURSIVE LongestPath(_, _)
LongestPath(d, v) ==
    LET own == IF d.all_nodes[v].op = None THEN 0 ELSE get_cost(d.all_nodes[v].op)
        us == Range(d.all_nodes[v].users)
    IN own + (IF us = {} THEN 0 ELSE MaxOf({LongestPath(d, u) : u \in us}))

\* get_costs has returned
CostsReturned == pc \in {"efficient_sort", "regalloc", "done"}

\* C4 (as claimed): get_costs returns the longest-path cost of every node.
C4_LongestPathCosts ==
    CostsReturned => \A v \in DOMAIN dag.all_nodes : gc.res[v] = LongestPath(dag, v)

\* next use of a, with "never used again" the greatest, is >= next use of b
NextUseGeq(a, b) == a = << >> \/ (b # << >> /\ Head(a) >= Head(b))

\* C5 (as claimed, for the register files of the device): when alloc_reg evicts,
\* the evicted id's next use is >= the next use of every other resident of the
\* chip, a resident that is never used again counting as the greatest.
C5_FurthestNextUse ==
    (pc = "regalloc" /\ ra.reg_num = reg_stat /\ ra.evicted # NoneOpt)
        => LET ev == ra.evicted[1]
           IN \A other \in DOMAIN ev.queues \ {ev.id} :
                 NextUseGeq(ev.queues[ev.id], ev.queues[other])

\* regalloc has just emitted the instruction of an op node (step i - 1)
JustEmitted ==
    /\ pc = "regalloc" /\ ra.j = 0 /\ ra.i >= 1
    /\ ra.order[ra.i][2] # None

\* C6 (as claimed, for the register files of the device): when the instruction
\* of a step is emitted and its result bound, every source of its op is resident
\* on the step's chip.
C6_SourcesResident ==
    (JustEmitted /\ ra.reg_num = reg_stat)
        => \A src \in Range(ra.inputs[ra.order[ra.i][1]]) :
              src \in DOMAIN ra.alloc.memory[ra.order[ra.i][2]]

\* C7: across to_device, schedule and elapsed_time calls the clock of a device
\* never decreases.
C7_TimeMonotonic == [][device'.time >= device.time]_vars

C7_Witness ==
    /\ pc = "device" /\ calls = MaxCalls
    /\ device.time >= POINTWISE_COST + TRANSFER_TIME
    /\ Cardinality(device.done_tasks) >= 2

\* the layer (1-based) of the first occurrence of v in the layers, 0 when absent
LayerOf(layers, v) ==
    IF \E k \in DOMAIN layers : Contains(layers[k], v)
    THEN MinOf({k \in DOMAIN layers : Contains(layers[k], v)}) ELSE 0

\* C8: top_sort returns layers whose concatenation has every node exactly once,
\* and every source of a node lies in a strictly earlier layer.
C8_TopSortLayers ==
    pc # "top_sort" =>
        /\ IsPermutation(dag, Flatten(ts.res))
        /\ \A v \in DOMAIN dag.all_nodes : \A src \in Range(dag.all_nodes[v].sources) :
              LayerOf(ts.res, src) >= 1 /\ LayerOf(ts.res, src) < LayerOf(ts.res, v)

C8_Witness ==
    /\ pc = "exec_time" /\ mode = "baseline"
    /\ Len(ts.res) >= 3
    /\ \E k \in DOMAIN ts.res : Len(ts.res[k]) >= 2

\* C9 (as claimed): a second run of optimal_execute on the same Dag returns the
\* time and the order of the first run.
C9_Reproducible ==
    (pc = "done" /\ first_run # NoneOpt) => optimal = first_run

\* C10: on the demo Dag of main, baseline_execute returns a time strictly
\* greater than the time optimal_execute returns.
C10_DemoBaselineSlower ==
    (dag = DemoDag /\ pc = "done") => time_of(baseline) > time_of(optimal)

C10_Witness ==
    /\ dag = DemoDag /\ pc = "done"
    /\ time_of(baseline) > 7 * POINTWISE_COST

\* C11 (as claimed): on the Dag of one input feeding one VScaMul,
\* baseline_execute returns time 2 and optimal_execute returns time 2.
C11_PairTimes ==
    (dag = PairDag /\ pc = "done" /\ ra.reg_num = reg_stat)
        => time_of(baseline) = 2 /\ time_of(optimal) = 2

\* regalloc has returned to optimal_execute
RegallocReturned == mode = "optimal" /\ pc \in {"exec_time", "done"}

\* C12: on the chain of three VAdd below one input, no instruction of
\* optimal_execute has a pre-move and the time returned is one transfer plus
\* three pointwise costs (3001).
C12_ChainNoPreMove ==
    (dag = ChainDag /\ RegallocReturned)
        => /\ \A k \in DOMAIN ra.res : ra.res[k].pre_move = << >>
           /\ pc = "done" => time_of(optimal) = TRANSFER_TIME + 3 * POINTWISE_COST

C12_Witness ==
    /\ dag = ChainDag /\ pc = "done" /\ Len(ra.res) = 4
    /\ time_of(optimal) = 3001

\* the Dag has a cycle
Cyclic(d) == ~Peels(DOMAIN d.all_nodes, EdgeSet(d))
\* the Dag has a node without an opcode that has a source
OpLessWithSource(d) ==
    \E v \in DOMAIN d.all_nodes : d.all_nodes[v].op = None /\ d.all_nodes[v].sources # << >>
\* the input of main is structurally bad
Malformed == pc = "Dag_new" \/ Cyclic(dag) \/ OpLessWithSource(dag)

\* C13 (as claimed): on an input with a cycle, an edge id outside 0..N or a node
\* without an opcode that has a source, neither baseline_execute nor
\* optimal_execute returns a result: the program panics first.
C13_BadInputPanics ==
    Malformed => baseline = NoneOpt /\ optimal = NoneOpt

\* C14: alloc_reg never fails: whenever regalloc calls it, a register is free or
\* a resident id can be evicted, for every register count >= 1 per chip.
C14_NoExhaustion ==
    /\ panic # "unwrap of max_by on an empty memory"
    /\ pc = "regalloc" => \A chip \in ChipType : ~alloc_reg_fails(ra.alloc, chip)

\* an allocation on a chip with one register has evicted a resident id
C14_Witness ==
    /\ pc = "regalloc" /\ panic = ""
    /\ ra.reg_num["Scalar"] = 1
    /\ ra.evicted # NoneOpt
    /\ ra.i >= 2

\* the assertions of schedule and of efficient_sort
SchedulingAssertions ==
    {"assert active_memory.contains_key(input)", "assert done <= srcs.len",
     "assert !res.contains(task_id)", "assert_eq res.len() all_nodes.len()"}

\* exec_time is about to call schedule for the instruction at ex.ip
AboutToSchedule ==
    /\ pc = "exec_time" /\ panic = ""
    /\ ex.ip <= Len(ex.moves)
    /\ ex.pm > Len(ex.moves[ex.ip].pre_move)
    /\ dag.all_nodes[ex.moves[ex.ip].id].op # None

\* C15: on a well-formed Dag no scheduling assertion fires in baseline_execute
\* or optimal_execute: every source is bound in device memory when schedule is
\* called; in efficient_sort no arrival counter exceeds the in-degree, no id is
\* appended twice and the order returned has N entries.
C15_NoSchedulingAssertion ==
    /\ panic \notin SchedulingAssertions
    /\ AboutToSchedule =>
          inputs_bound(device, Range(dag.all_nodes[ex.moves[ex.ip].id].sources))
    /\ pc = "efficient_sort" =>
          /\ \A v \in DOMAIN dag.all_nodes : es.done[v] <= Len(dag.all_nodes[v].sources)
          /\ \A v \in DOMAIN dag.all_nodes : Cardinality(Positions(es.res, v)) <= 1
    /\ pc = "regalloc" => Len(es.res) = NumNodes(dag)

\* both entry points have replayed a Dag where some node has two sources
C15_Witness ==
    /\ pc = "done" /\ panic = ""
    /\ \E v \in DOMAIN dag.all_nodes : Len(dag.all_nodes[v].sources) >= 2
    /\ Len(order_of(optimal)) = NumNodes(dag)

Cores == {"active_mult_cores", "active_pointwise_cores"}

\* a step in which schedule has pushed a task on the core
Scheduled(core) ==
    /\ device'[core] # device[core]
    /\ Len(device'[core]) >= Len(device[core])

\* C16 (as claimed): the completion time schedule records for the new task is
\* the clock of the device after the call plus the cost of the core, whether
\* the core had capacity or its head was popped.
C16_CompletionFromClock ==
    [][\A core \in Cores :
          Scheduled(core) => Last(device'[core])[2] = device'.time + info_cost(core)]_vars

\* C17 (as claimed): the id -> register map and the register -> id map of the
\* device are mutual inverses: id maps to r exactly when r maps to id.
C17_MapsInverse ==
    /\ \A id \in DOMAIN device.active_memory :
          /\ device.active_memory[id] \in DOMAIN device.registers
          /\ device.registers[device.active_memory[id]] = id
    /\ \A reg \in DOMAIN device.registers :
          /\ device.registers[reg] \in DOMAIN device.active_memory
          /\ device.active_memory[device.registers[reg]] = reg

\* the registers bound to the resident ids of a chip
BoundRegs(alloc, chip) == {alloc.memory[chip][id] : id \in DOMAIN alloc.memory[chip]}

\* C18: throughout regalloc, for each chip, the free list and the registers of
\* the resident ids are disjoint and together are the chip's registers; no
\* register is twice in the free list and no two resident ids hold the same one.
C18_RegisterPartition ==
    pc = "regalloc" =>
        \A chip \in ChipType :
            /\ Range(ra.alloc.free_regs[chip]) \cap BoundRegs(ra.alloc, chip) = {}
            /\ Range(ra.alloc.free_regs[chip]) \cup BoundRegs(ra.alloc, chip)
                  = {Register_new(x) : x \in 0 .. (ra.reg_num[chip] - 1)}
            /\ Cardinality(Range(ra.alloc.free_regs[chip])) = Len(ra.alloc.free_regs[chip])
            /\ Cardinality(BoundRegs(ra.alloc, chip)) = Cardinality(DOMAIN ra.alloc.memory[chip])

\* a chip with two registers, both bound, after an eviction
C18_Witness ==
    /\ pc = "regalloc" /\ panic = ""
    /\ ra.evicted # NoneOpt
    /\ \E chip \in ChipType :
          /\ ra.reg_num[chip] = 2
          /\ ra.alloc.free_regs[chip] = << >>
          /\ Cardinality(DOMAIN ra.alloc.memory[chip]) = 2

Ascending(q) == \A a, b \in DOMAIN q : a < b => q[a] <= q[b]

\* the ids resident on some chip
Residents(alloc) == UNION {DOMAIN alloc.memory[chip] : chip \in DOMAIN alloc.memory}

\* the steps (0-based) from step i on whose instruction consumes id
UsesFrom(st, id) ==
    {k \in st.i .. (Len(st.order) - 1) : id \in Range(st.inputs[st.order[k + 1][1]])}

\* regalloc is at step i, right after its call of sync_memory
JustSynced == pc = "regalloc" /\ panic = "" /\ ra.j = 1 /\ ra.i < Len(ra.order)

\* C19 (as claimed): the use queue the allocator holds for each id is ascending,
\* and right after the sync of step i the front of the queue of every resident
\* id is the smallest step >= i that consumes the id, the queue being empty
\* exactly when there is no such step.
C19_FrontIsNextUse ==
    /\ pc = "regalloc" => \A id \in DOMAIN ra.users : Ascending(ra.users[id])
    /\ JustSynced =>
          \A id \in Residents(ra.alloc) :
              IF UsesFrom(ra, id) = {} THEN ra.users[id] = << >>
              ELSE ra.users[id] # << >> /\ Head(ra.users[id]) = MinOf(UsesFrom(ra, id))

\* a step of elapsed_time with a task in flight on both cores
DrainsBoth ==
    /\ pc = "elapsed_time" /\ device' # device
    /\ device.active_mult_cores # << >> /\ device.active_pointwise_cores # << >>

PopsMatrix ==
    /\ device'.active_mult_cores = Tail(device.active_mult_cores)
    /\ device'.active_pointwise_cores = device.active_pointwise_cores
    /\ device'.done_tasks = device.done_tasks \cup {Head(device.active_mult_cores)[1]}

PopsScalar ==
    /\ device'.active_pointwise_cores = Tail(device.active_pointwise_cores)
    /\ device'.active_mult_cores = device.active_mult_cores
    /\ device'.done_tasks = device.done_tasks \cup {Head(device.active_pointwise_cores)[1]}

\* C20 (as claimed): when elapsed_time drains and both cores have a head, the
\* matrix core's head is popped first if its completion time is smaller than or
\* equal to the scalar head's, the scalar core's head otherwise.
C20_TieToMatrix ==
    [][DrainsBoth =>
         IF Head(device.active_mult_cores)[2] <= Head(device.active_pointwise_cores)[2]
         THEN PopsMatrix ELSE PopsScalar]_vars

\* the modeled execution interval of a task recorded on a core: from its
\* completion time minus the cost of the core to its completion time
IntervalOf(core, task) == [from |-> task[2] - info_cost(core), to |-> task[2]]
Overlap(a, b) == a.from < b.to /\ b.from < a.to

\* C21 (as claimed): during the replay of baseline_execute the execution
\* interval of a task on the matrix core never overlaps the execution interval
\* of a task on the scalar core.
C21_BaselineOneCore ==
    (mode = "baseline" /\ pc = "exec_time") =>
        \A m \in Range(device.active_mult_cores), p \in Range(device.active_pointwise_cores) :
            ~Overlap(IntervalOf("active_mult_cores", m), IntervalOf("active_pointwise_cores", p))

\* the clock of efficient_sort at which an op node was appended to the order
AppendedAt(d, st, v) == st.pushed[v] - get_cost(d.all_nodes[v].op)

\* C22: in efficient_sort every node is appended to the order at a value of
\* `cycles` that is >= the completion time (the key pushed to `active`: dispatch
\* clock + cost, 0 for an input) of each of its sources, each source having
\* retired from `active` before; `cycles` never decreases.
C22_ReadyAfterSources ==
    [][/\ pc' = "efficient_sort" =>
             \A v \in Range(es'.res) : \A src \in Range(dag'.all_nodes[v].sources) :
                 /\ src \in DOMAIN es'.pushed
                 /\ AppendedAt(dag', es', v) >= es'.pushed[src]
                 /\ \A key \in DOMAIN es'.active : ~Contains(es'.active[key], src)
       /\ (pc = "efficient_sort" /\ pc' = "efficient_sort") => es'.cycles >= es.cycles]_vars

\* a node with two sources that complete at different times has been appended
C22_Witness ==
    /\ pc = "efficient_sort" /\ panic = ""
    /\ \E v \in Range(es.res) : \E a, b \in Range(dag.all_nodes[v].sources) :
          es.pushed[a] + POINTWISE_COST <= es.pushed[b]

\* the ready tasks of an opcode: the ids waiting in its buckets of `free`
ReadyTasks(st, op) ==
    IF op \in DOMAIN st.free
    THEN UNION {Range(st.free[op][w]) : w \in DOMAIN st.free[op]} ELSE {}

\* a step of efficient_sort that appends a task to the order
Dispatches == pc = "efficient_sort" /\ pc' = "efficient_sort" /\ es'.res # es.res
\* a step of efficient_sort that pops the smallest key of `active`
Advances == pc = "efficient_sort" /\ pc' = "efficient_sort" /\ es'.active # es.active
                /\ es'.res = es.res

\* C23: a task dispatched by efficient_sort has the largest cost among the ready
\* tasks of its opcode and is the last one enqueued among those of that cost;
\* time advances only when the core of every opcode with a ready task is full.
C23_DispatchHeaviest ==
    [][/\ Dispatches =>
             LET t == Last(es'.res)
                 op == dag.all_nodes[t].op
             IN /\ es'.res = Append(es.res, t)
                /\ t \in ReadyTasks(es, op)
                /\ \A u \in ReadyTasks(es, op) : gc.res[u] <= gc.res[t]
                /\ gc.res[t] \in DOMAIN es.free[op]
                /\ t = Last(es.free[op][gc.res[t]])
       /\ Advances =>
             \A op \in DOMAIN es.free :
                 ReadyTasks(es, op) # {} =>
                     is_full(Core_update_time(es.device[get_core(op)], es.cycles))]_vars

\* a task was dispatched while a lighter ready task of its opcode waits
C23_Witness ==
    /\ pc = "efficient_sort" /\ panic = "" /\ es.res # << >>
    /\ LET t == Last(es.res)
           op == dag.all_nodes[t].op
       IN op # None /\ \E u \in ReadyTasks(es, op) : gc.res[u] < gc.res[t]

\* the main loop of efficient_sort is over: its condition is false, or nothing
\* was dispatched and pop_first found `active` empty (break)
LoopExits ==
    /\ pc = "efficient_sort" /\ panic = ""
    /\ ~efficient_sort_cond(es) \/ (es_scan.op = None /\ DOMAIN es.active = {})

\* C24: on a well-formed Dag the main loop of efficient_sort terminates, and
\* when it exits `active` is empty and no ready task waits in `free`.
C24_SortTerminates ==
    /\ [](LoopExits =>
            /\ DOMAIN es.active = {}
            /\ \A op \in DOMAIN es.free : ReadyTasks(es, op) = {})
    /\ (pc = "efficient_sort") ~> (pc = "regalloc")

\* the loop has exited by its break: `free` still has the keys of the opcodes
C24_Witness ==
    /\ LoopExits
    /\ Cardinality(DOMAIN es.free) = 2
    /\ Len(es.res) = NumNodes(dag) /\ NumNodes(dag) >= 3

\* the tasks in flight on the two cores
InFlight(dev) == Range(dev.active_mult_cores) \cup Range(dev.active_pointwise_cores)

\* the clock once every task in flight has completed
DrainTarget(dev) == MaxOf({dev.time} \cup {task[2] : task \in InFlight(dev)})

\* C25: elapsed_time terminates; from its call to its return the maximum of the
\* clock and of the completion times in flight stays what it was at the call,
\* and at the return the clock has that value, both queues are empty and every
\* id that was dispatched or transferred is in the done set.
C25_DrainCompletes ==
    /\ [][(pc = "elapsed_time" \/ pc' = "elapsed_time") =>
            /\ DrainTarget(device') = DrainTarget(device)
            /\ pc' = "device" =>
                  /\ device'.time = DrainTarget(device)
                  /\ InFlight(device') = {}
                  /\ DOMAIN device'.active_memory \subseteq device'.done_tasks]_vars
    /\ (pc = "elapsed_time") ~> (pc = "device")

\* elapsed_time is about to return with both cores drained: a scalar task has
\* completed and at least two ids are done
C25_Witness ==
    /\ pc = "elapsed_time" /\ InFlight(device) = {}
    /\ device.time >= POINTWISE_COST
    /\ Cardinality(device.done_tasks) >= 2

\* the recorded completion times of the tasks with this id that are in flight
CompletionsInFlight(dev, id) == {task[2] : task \in {t \in InFlight(dev) : t[1] = id}}

\* exec_time replays an instruction or a pre_move
Replays == pc = "exec_time" /\ panic = "" /\ ex.ip <= Len(ex.moves)

\* C26 (as claimed): in the replay of an instruction list a task starts (its
\* recorded completion time minus the cost of its core) no earlier than the
\* recorded completion time of each of its sources, on whichever core the
\* source runs, and no id is transferred before the task producing it has
\* completed.
C26_DependenciesInTime ==
    [][Replays =>
         /\ \A core \in Cores :
               Scheduled(core) =>
                 \A u \in Range(dag.all_nodes[ex.moves[ex.ip].id].sources) :
                   \A done \in CompletionsInFlight(device, u) :
                     Last(device'[core])[2] - info_cost(core) >= done
         /\ (ex.pm <= Len(ex.moves[ex.ip].pre_move)) =>
               \A done \in CompletionsInFlight(device, ex.moves[ex.ip].pre_move[ex.pm][1]) :
                 device.time >= done]_vars

\* the key of the bucket a visited node was first popped from
FirstKey(v) == gc.res[v] - get_costs_new_cost(dag, 0, v)

\* the keys of the buckets of finish_nodes that hold v
PendingKeys(v) == {t \in DOMAIN gc.finish_nodes : Contains(gc.finish_nodes[t], v)}

\* own cost plus the smallest cost of a user
MinUserCost(v) ==
    LET us == Range(dag.all_nodes[v].users)
    IN get_costs_new_cost(dag, 0, v) + (IF us = {} THEN 0 ELSE MinOf({gc.res[u] : u \in us}))

====
